---- MODULE Spec2Model ----
(***************************************************************************)
(* A model of nais/build ("nb"): the CLI's run() with its three commands   *)
(* (src/src/main.rs), SDK detection (main.rs init_sdk, src/src/sdk.rs),    *)
(* the registry token provider (src/src/auth.rs, src/src/google.rs), the   *)
(* container-engine wrappers (src/src/docker.rs) and the deploy client     *)
(* wrapper (src/src/deploy.rs).                                            *)
(*                                                                         *)
(* One behaviour of Spec is one process: the inputs (command line, source  *)
(* tree, container engine, credentials) are fixed in Init and run() is     *)
(* followed step by step, one action per call that can fail.               *)
(***************************************************************************)
EXTENDS Integers, Sequences, FiniteSets, TLC

VARIABLES
    input,              \* what the process is started with (see Inputs)
    pc,                 \* position inside main() / run()
    trace,              \* the steps run() has executed, with their outcome
    result,             \* what run() returns
    exit_code,          \* the code main() passes to std::process::exit
    docker_image_name,  \* the formatted image name (main.rs:158,165,174)
    sdk,                \* the DockerFileBuilder init_sdk returned
    probes,             \* SDK variants probed by init_sdk, in order
    token,              \* the password handed to docker login
    tempfiles,          \* transient build scripts existing on disk
    stdout,             \* the Dockerfile printed on standard output
    a_module,           \* token(): the module called, auth.rs or google.rs
    a_env,              \* token(): the process environment
    a_pc,               \* token(): position
    a_calls,            \* token(): HTTP/credential calls made, in order
    a_result,           \* token(): returned value
    d_env,              \* deploy: the process environment
    d_engine,           \* deploy: outcome of the deploy client process
    d_pc,               \* deploy: position
    d_config,           \* deploy: what Config::try_new_from_env returned
    d_invocations,      \* deploy: recorded invocations of the deploy client
    d_result            \* deploy: what deploy() returned

run_vars == <<input, pc, trace, result, exit_code, docker_image_name, sdk,
              probes, token, tempfiles, stdout>>
auth_vars == <<a_module, a_env, a_pc, a_calls, a_result>>
deploy_vars == <<d_env, d_engine, d_pc, d_config, d_invocations, d_result>>
vars == <<run_vars, auth_vars, deploy_vars>>

----------------------------------------------------------------------------
(* Bounds of the model.                                                    *)

\* Exit statuses of external processes range over 0..MaxExit.
MaxExit == 1
\* At most MaxTargets entries in the Go `cmd` directory.
MaxTargets == 2

----------------------------------------------------------------------------
(* Option and Result.                                                      *)

None == <<>>
Some(v) == <<v>>
IsSome(o) == Len(o) = 1
Unwrap(o) == o[1]

Ok(v) == [ok |-> TRUE, val |-> Some(v), err |-> None]
Err(e) == [ok |-> FALSE, val |-> None, err |-> Some(e)]
Pending == [ok |-> FALSE, val |-> None, err |-> None]
IsErr(r) == ~r.ok /\ IsSome(r.err)
ErrOf(r) == Unwrap(r.err)
ValOf(r) == Unwrap(r.val)
Unit == "()"

\* What running an external process gives: an io::Error (it could not be
\* started, written to or waited for), or its exit status `code`.
IoFailed == [io_error |-> TRUE, code |-> 0]
Exited(c) == [io_error |-> FALSE, code |-> c]
Outcomes == {IoFailed} \cup {Exited(c) : c \in 0..MaxExit}

\* ExitStatus::success()
success(exit_status) == exit_status.code = 0

----------------------------------------------------------------------------
(* Strings.                                                                *)

\* char::is_whitespace, the White_Space property that str::trim,
\* trim_start and trim_end test: U+0009..U+000D, U+0020, U+0085 and U+00A0.
\* The White_Space characters above U+00FF (U+1680, U+2000..U+200A, U+2028,
\* U+2029, U+202F, U+205F, U+3000) are not characters of this module's
\* strings.
IsWhitespace(c) ==
    c \in {"\t", "\n", "", "\f", "\r", " ", "", " "}

RECURSIVE trim_start(_)
trim_start(s) ==
    IF Len(s) > 0 /\ IsWhitespace(SubSeq(s, 1, 1))
    THEN trim_start(SubSeq(s, 2, Len(s)))
    ELSE s

RECURSIVE trim_end(_)
trim_end(s) ==
    IF Len(s) > 0 /\ IsWhitespace(SubSeq(s, Len(s), Len(s)))
    THEN trim_end(SubSeq(s, 1, Len(s) - 1))
    ELSE s

\* str::trim
trim(s) == trim_end(trim_start(s))

\* str::strip_prefix(prefix): Some(rest) when s starts with prefix.
RECURSIVE strip_prefix_AllLeading(_, _)
strip_prefix_AllLeading(s, prefix) ==
    IF Len(s) >= Len(prefix) /\ SubSeq(s, 1, Len(prefix)) = prefix
    THEN LET rest == SubSeq(s, Len(prefix) + 1, Len(s))
             inner == strip_prefix_AllLeading(rest, prefix) IN
         IF IsSome(inner) THEN inner ELSE Some(rest)
    ELSE None

strip_prefix(s, prefix) ==
    IF Len(s) >= Len(prefix) /\ SubSeq(s, 1, Len(prefix)) = prefix
    THEN Some(SubSeq(s, Len(prefix) + 1, Len(s)))
    ELSE None

\* Option::unwrap_or
unwrap_or(o, default) == IF IsSome(o) THEN Unwrap(o) ELSE default

----------------------------------------------------------------------------
(* The source tree.                                                        *)

\* What can be at a marker path: nothing, a regular file, a directory, or
\* something std::fs::metadata cannot stat (permission denied, a symlink
\* loop, ...).
MarkerStates == {"absent", "file", "dir", "denied"}

\* std::fs::metadata(path)
metadata_DirIsFile(entry) ==
    CASE entry = "absent" -> Err("NotFound")
      [] entry = "denied" -> Err("PermissionDenied")
      [] entry = "file"   -> Ok([is_file |-> TRUE])
      [] entry = "dir"    -> Ok([is_file |-> TRUE])

metadata(entry) ==
    CASE entry = "absent" -> Err("NotFound")
      [] entry = "denied" -> Err("PermissionDenied")
      [] entry = "file"   -> Ok([is_file |-> TRUE])
      [] entry = "dir"    -> Ok([is_file |-> FALSE])

\* Entries of the `cmd` directory as read_dir yields them: a name, a name
\* that is not valid UTF-8, or an entry whose read failed.
TargetNames == {"svcA", "svcB"}
NonUtf8 == "<non-utf8>"
EntryError == "<io-error>"
DirEntries == TargetNames \cup {NonUtf8, EntryError}

RECURSIVE NoDuplicates(_)
NoDuplicates(seq) ==
    \/ Len(seq) = 0
    \/ /\ \A i \in 2..Len(seq) : seq[i] # seq[1]
       /\ NoDuplicates(Tail(seq))

\* Directory listings in the order the operating system enumerates them.
Listings ==
    {l \in UNION {[1..n -> DirEntries] : n \in 0..MaxTargets} : NoDuplicates(l)}
Unreadable == [readable |-> FALSE, entries |-> <<>>]
CmdDirs == {Unreadable} \cup {[readable |-> TRUE, entries |-> l] : l \in Listings}

----------------------------------------------------------------------------
(* SDK detection: src/src/sdk.rs and init_sdk of src/src/main.rs.          *)

\* sdk::golang::new
golang_new_TreatsErrorAsFound(tree) ==
    LET stat == metadata(tree.go_mod) IN
    IF ~stat.ok THEN Ok(Some("Golang"))
    ELSE IF ~ValOf(stat).is_file THEN Ok(None)
    ELSE Ok(Some("Golang"))

golang_new(tree) ==
    LET stat == metadata(tree.go_mod) IN
    IF ~stat.ok THEN Ok(None)
    ELSE IF ~ValOf(stat).is_file THEN Ok(None)
    ELSE Ok(Some("Golang"))

\* sdk::gradle::new
gradle_new_InvertedIsFile(tree) ==
    LET stat == metadata(tree.gradlew) IN
    IF ~stat.ok THEN Ok(None)
    ELSE IF ValOf(stat).is_file THEN Ok(None)
    ELSE Ok(Some("Gradle"))

gradle_new(tree) ==
    LET stat == metadata(tree.gradlew) IN
    IF ~stat.ok THEN Ok(None)
    ELSE IF ~ValOf(stat).is_file THEN Ok(None)
    ELSE Ok(Some("Gradle"))

\* sdk::maven::new is called by init_sdk but is not part of src/src/sdk.rs.
\* It is modelled from the specification: the probe is a read-only check of
\* the variant's marker file, answers an explicit negative when the marker
\* is absent, and reports a filesystem error other than "absent" as an
\* error.
maven_new(tree) ==
    LET stat == metadata(tree.pom_xml) IN
    IF ~stat.ok
    THEN IF ErrOf(stat) = "NotFound" THEN Ok(None)
         ELSE Err(<<"SDKError", ErrOf(stat)>>)
    ELSE IF ~ValOf(stat).is_file THEN Ok(None)
    ELSE Ok(Some("Maven"))

\* init_sdk: the probes made, in order, and what is returned.
init_sdk_ProbesAll(tree) ==
    LET go == golang_new(tree)
        gradle == gradle_new(tree)
        maven == maven_new(tree) IN
    [probed |-> <<"Golang", "Gradle", "Maven">>,
     ret |-> IF maven.ok /\ IsSome(ValOf(maven)) THEN Ok(Unwrap(ValOf(maven)))
             ELSE IF gradle.ok /\ IsSome(ValOf(gradle)) THEN Ok(Unwrap(ValOf(gradle)))
             ELSE IF go.ok /\ IsSome(ValOf(go)) THEN Ok(Unwrap(ValOf(go)))
             ELSE Err(<<"SDKNotDetected">>)]

init_sdk(tree) ==
    LET go == golang_new(tree) IN
    IF ~go.ok THEN [probed |-> <<"Golang">>, ret |-> Err(ErrOf(go))]
    ELSE IF IsSome(ValOf(go))
    THEN [probed |-> <<"Golang">>, ret |-> Ok(Unwrap(ValOf(go)))]
    ELSE
    LET gradle == gradle_new(tree) IN
    IF ~gradle.ok
    THEN [probed |-> <<"Golang", "Gradle">>, ret |-> Err(ErrOf(gradle))]
    ELSE IF IsSome(ValOf(gradle))
    THEN [probed |-> <<"Golang", "Gradle">>, ret |-> Ok(Unwrap(ValOf(gradle)))]
    ELSE
    LET maven == maven_new(tree) IN
    IF ~maven.ok
    THEN [probed |-> <<"Golang", "Gradle", "Maven">>, ret |-> Err(ErrOf(maven))]
    ELSE IF IsSome(ValOf(maven))
    THEN [probed |-> <<"Golang", "Gradle", "Maven">>,
          ret |-> Ok(Unwrap(ValOf(maven)))]
    ELSE [probed |-> <<"Golang", "Gradle", "Maven">>,
          ret |-> Err(<<"SDKNotDetected">>)]

----------------------------------------------------------------------------
(* Dockerfile generation: src/src/sdk.rs.                                  *)

\* sdk::golang::Golang::detect_build_targets: the entries of <root>/cmd in
\* the order read_dir yields them; collect() stops at the first error.
RECURSIVE collect_targets(_)
collect_targets(entries) ==
    IF Len(entries) = 0 THEN Ok(<<>>)
    ELSE IF Head(entries) = EntryError THEN Err(<<"FilesystemError">>)
    ELSE IF Head(entries) = NonUtf8 THEN Err(<<"EmptyFilename">>)
    ELSE LET rest == collect_targets(Tail(entries)) IN
         IF rest.ok THEN Ok(<<Head(entries)>> \o ValOf(rest)) ELSE rest

golang_detect_build_targets(tree) ==
    IF ~tree.cmd.readable THEN Err(<<"FileError", "cmd">>)
    ELSE collect_targets(tree.cmd.entries)

\* .fold(String::new(), |acc, item| acc + "\n" + &item)
RECURSIVE fold_lines(_, _)
fold_lines(acc, items) ==
    IF Len(items) = 0 THEN acc
    ELSE fold_lines(acc \o "\n" \o Head(items), Tail(items))

go_build_command(item) ==
    "RUN go build -a -installsuffix cgo -o /build/" \o item \o " ./cmd/" \o item
go_copy_command(item) ==
    "COPY --from=builder /build/" \o item \o " /app/" \o item

\* sdk::golang::Golang::dockerfile: the parts of the template that vary.
golang_dockerfile_CmdForFirst(tree) ==
    LET targets == golang_detect_build_targets(tree) IN
    IF ~targets.ok THEN Err(<<"SDKError", ErrOf(targets)>>)
    ELSE LET t == ValOf(targets) IN
    Ok([builder_image |-> "sdk.go.build_docker_image",
        runtime_image |-> "sdk.go.runtime_docker_image",
        binary_build_commands |->
            trim(fold_lines("", [i \in 1..Len(t) |-> go_build_command(t[i])])),
        binary_copy_commands |->
            trim(fold_lines("", [i \in 1..Len(t) |-> go_copy_command(t[i])])),
        default_target |->
            IF Len(t) >= 1
            THEN "CMD [\"/app/" \o t[1] \o "\"]"
            ELSE "# Default CMD omitted due to multiple targets specified"])

golang_dockerfile(tree) ==
    LET targets == golang_detect_build_targets(tree) IN
    IF ~targets.ok THEN Err(<<"SDKError", ErrOf(targets)>>)
    ELSE LET t == ValOf(targets) IN
    Ok([builder_image |-> "sdk.go.build_docker_image",
        runtime_image |-> "sdk.go.runtime_docker_image",
        binary_build_commands |->
            trim(fold_lines("", [i \in 1..Len(t) |-> go_build_command(t[i])])),
        binary_copy_commands |->
            trim(fold_lines("", [i \in 1..Len(t) |-> go_copy_command(t[i])])),
        default_target |->
            IF Len(t) = 1
            THEN "CMD [\"/app/" \o t[1] \o "\"]"
            ELSE "# Default CMD omitted due to multiple targets specified"])

\* sdk::golang::Golang::dockerfile, sdk.rs:112-151: the format! template
\* with the parts filled in.
golang_dockerfile_format(parts) ==
    "\n"
    \o "# Dockerfile generated by NAIS build (version) at (timestamp)\n"
    \o "\n"
    \o "#\n"
    \o "# Builder image\n"
    \o "#\n"
    \o "FROM " \o parts.builder_image \o " AS builder\n"
    \o "ENV GOOS=linux\n"
    \o "ENV CGO_ENABLED=0\n"
    \o "WORKDIR /src\n"
    \o "\n"
    \o "# Copy go.mod and go.sum files into source directory\n"
    \o "# so that dependencies can be downloaded before the source code.\n"
    \o "# This is a cache optimization step (???)\n"
    \o "COPY go.* /src/\n"
    \o "RUN go mod download\n"
    \o "COPY . /src\n"
    \o "\n"
    \o "# Start hook is run before testing\n"
    \o "#RUN ___start_hook\n"
    \o "\n"
    \o "# Test all modules\n"
    \o "RUN go test ./...\n"
    \o "\n"
    \o "# Build all binaries found in ./cmd/*\n"
    \o parts.binary_build_commands \o "\n"
    \o "\n"
    \o "# End hook is run after build\n"
    \o "#RUN ___end_hook\n"
    \o "\n"
    \o "#\n"
    \o "# Runtime image\n"
    \o "#\n"
    \o "FROM " \o parts.runtime_image \o "\n"
    \o "WORKDIR /app\n"
    \o parts.binary_copy_commands \o "\n"
    \o parts.default_target \o "\n"

\* sdk::gradle::Gradle::detect_build_targets
gradle_detect_build_targets == Ok(<<"test", "shadowJar">>)

gradle_build_command_NoSettings(settings_file, target) ==
    "RUN ./gradlew " \o target

gradle_build_command(settings_file, target) ==
    IF IsSome(settings_file)
    THEN "RUN ./gradlew -settings-file " \o Unwrap(settings_file) \o " " \o target
    ELSE "RUN ./gradlew " \o target

\* sdk::gradle::Gradle::dockerfile
gradle_dockerfile(settings_file) ==
    LET t == ValOf(gradle_detect_build_targets) IN
    Ok([builder_image |-> "sdk.gradle.build_docker_image",
        runtime_image |-> "sdk.gradle.runtime_docker_image",
        binary_build_commands |->
            trim(fold_lines("", [i \in 1..Len(t) |->
                                   gradle_build_command(settings_file, t[i])])),
        binary_copy_commands |->
            "COPY --from=builder /src/build/libs/app-all.jar /app/app.jar",
        default_target |-> "CMD [\"java\", \"-jar\", \"/app/app.jar\"]"])

\* The text of sdk::gradle::Gradle::dockerfile, from the parts.
gradle_dockerfile_format(parts) ==
    "\n"
    \o "# Dockerfile generated by NAIS build (version) at (timestamp)\n"
    \o "\n"
    \o "#\n"
    \o "# Builder image\n"
    \o "#\n"
    \o "FROM " \o parts.builder_image \o " AS builder\n"
    \o "\n"
    \o "WORKDIR /src\n"
    \o "COPY . /src\n"
    \o "\n"
    \o "# Build all binaries found in /src/src/main/\n"
    \o parts.binary_build_commands \o "\n"
    \o "\n"
    \o "# End hook is run after build\n"
    \o "#RUN ___end_hook\n"
    \o "\n"
    \o "#\n"
    \o "# Runtime image\n"
    \o "#\n"
    \o "FROM " \o parts.runtime_image \o "\n"
    \o "\n"
    \o "# TODO: Find out what this opts really does, what is the default?\n"
    \o "ENV JAVA_OPTS='-XX:MaxRAMPercentage=90'\n"
    \o "\n"
    \o parts.binary_copy_commands \o "\n"
    \o "\n"
    \o "CMD [\"java\", \"-jar\", \"/app/app.jar\"]\n"

\* The Maven builder is not part of src/src/sdk.rs; from the specification
\* its target list is fixed and its generator cannot fail.
maven_dockerfile ==
    Ok([builder_image |-> "sdk.maven.build_docker_image",
        runtime_image |-> "sdk.maven.runtime_docker_image",
        binary_build_commands |-> "RUN mvn package",
        binary_copy_commands |-> "COPY --from=builder /src/target/app.jar /app/app.jar",
        default_target |-> "CMD [\"java\", \"-jar\", \"/app/app.jar\"]"])

\* DockerFileBuilder::dockerfile, dispatched on the detected variant.
dockerfile(builder, in) ==
    CASE builder = "Golang" -> golang_dockerfile(in.fs)
      [] builder = "Gradle" -> gradle_dockerfile(in.cfg_file.settings_file)
      [] builder = "Maven"  -> maven_dockerfile

----------------------------------------------------------------------------
(* Image names: config::docker::name and config::file::Release.            *)

\* impl Display for GoogleArtifactRegistry
GoogleArtifactRegistry_fmt_OmitsTeam(config) ==
    config.registry \o "/" \o config.app \o ":" \o config.tag

GoogleArtifactRegistry_fmt(config) ==
    config.registry \o "/" \o config.team \o "/" \o config.app \o ":" \o config.tag

\* impl Display for GitHubContainerRegistry
GitHubContainerRegistry_fmt_WithTeam(config) ==
    config.registry \o "/" \o config.team \o "/" \o config.app \o ":" \o config.tag

GitHubContainerRegistry_fmt(config) ==
    config.registry \o "/" \o config.app \o ":" \o config.tag

\* Release::value
Release_value_AlwaysGar(release) == release.gar

Release_value(release) ==
    CASE release.typ = "GAR"  -> release.gar
      [] release.typ = "GHCR" -> release.ghcr

\* Release::docker_name_builder(config).to_string()
docker_name_builder(release, config) ==
    CASE release.typ = "GAR"  -> GoogleArtifactRegistry_fmt(config)
      [] release.typ = "GHCR" -> GitHubContainerRegistry_fmt(config)

----------------------------------------------------------------------------
(* The container engine: main.rs (build, docker_login, docker_logout) and  *)
(* src/src/docker.rs (build, login, logout, push).                         *)

\* .status().map(|exit_status| if success { Ok } else { Err(kind) })?
\* An io::Error becomes io_kind through the enum's #[from] conversion.
status_to_result(outcome, kind, io_kind) ==
    IF outcome.io_error THEN Err(<<io_kind>>)
    ELSE IF success(outcome) THEN Ok(Unit)
    ELSE Err(<<kind, outcome.code>>)

\* main.rs docker_login
docker_login(outcome) == status_to_result(outcome, "DockerLogin", "FilesystemError")
\* main.rs docker_logout
docker_logout(outcome) == status_to_result(outcome, "DockerLogout", "FilesystemError")

\* docker.rs login, logout, push
login(outcome) == status_to_result(outcome, "Login", "IOError")
logout(outcome) == status_to_result(outcome, "Logout", "IOError")
push(outcome) == status_to_result(outcome, "Push", "IOError")

\* main.rs build, after NamedTempFile::new() succeeded: generate the
\* script, write it, run `docker build`.
build(builder, in) ==
    LET script == dockerfile(builder, in) IN
    IF ~script.ok
    THEN [ret |-> Err(ErrOf(script)), engine_invoked |-> FALSE]
    ELSE IF in.tmp = "write_fails"
    THEN [ret |-> Err(<<"FilesystemError">>), engine_invoked |-> FALSE]
    ELSE [ret |-> status_to_result(in.engine.build, "DockerBuild", "FilesystemError"),
          engine_invoked |-> TRUE]

\* main.rs get_gar_auth_token: the token of the default token source,
\* as the provider returns it.
get_gar_auth_token(provider) ==
    CASE provider.kind = "provider_error" -> Err(<<"GoogleCloudAuthError">>)
      [] provider.kind = "token_error"    -> Err(<<"GoogleCloudAuthTokenError">>)
      [] provider.kind = "token"          -> Ok(provider.token)

----------------------------------------------------------------------------
(* nais.yaml detection: src/src/nais_yaml.rs.                              *)

MaxEntries == 2

candidates ==
    {".nais.yaml", ".nais.yml", ".naiserator.yaml", ".naiserator.yml",
     "dev-fss.yaml", "dev-fss.yml", "dev-gcp.yaml", "dev-gcp.yml", "dev.yml",
     "nais.yaml", "nais.yml", "naiserator.yaml", "naiserator.yml",
     "prod-fss.yaml", "prod-fss.yml", "prod-gcp.yaml", "prod-gcp.yml", "prod.yml"}

\* What read_dir yields for one entry: a file name, a name that is not
\* valid UTF-8, or an error.
NaisDirEntries == {"nais.yaml", "dev-gcp.yaml", "README.md", NonUtf8, EntryError}
NaisListings ==
    {l \in UNION {[1..n -> NaisDirEntries] : n \in 0..MaxEntries} : NoDuplicates(l)}
\* A directory that is missing or cannot be read, or its listing in the
\* order of enumeration.
NaisDirs == {Unreadable} \cup {[readable |-> TRUE, entries |-> l] : l \in NaisListings}

\* walk_dir: the entries read without error, or the error of read_dir.
walk_dir(dir) ==
    IF ~dir.readable THEN Err(<<"FileSystem">>)
    ELSE Ok(SelectSeq(dir.entries, LAMBDA e : e # EntryError))

\* detect_nais_yaml: `panic` is the unwrap of to_str() on a file name that
\* is not valid UTF-8; the filter looks at every entry of both listings.
detect_nais_yaml(filesystem_path, root, nais) ==
    LET root_dir_files == walk_dir(root) IN
    IF ~root_dir_files.ok
    THEN [panic |-> FALSE, ret |-> Err(ErrOf(root_dir_files))]
    ELSE
    LET nais_files == IF walk_dir(nais).ok THEN ValOf(walk_dir(nais)) ELSE <<>>
        \* DirEntry::path(): PathBuf::join adds the separator unless the
        \* directory already ends with one.
        path(dir, e) == IF dir = "" \/ SubSeq(dir, Len(dir), Len(dir)) = "/"
                        THEN dir \o e ELSE dir \o "/" \o e
        flat == [i \in 1..Len(ValOf(root_dir_files)) |->
                    [name |-> ValOf(root_dir_files)[i],
                     path |-> path(filesystem_path, ValOf(root_dir_files)[i])]]
                \o [i \in 1..Len(nais_files) |->
                    [name |-> nais_files[i],
                     path |-> path(filesystem_path \o "/.nais", nais_files[i])]]
        found == SelectSeq(flat, LAMBDA e : e.name \in candidates) IN
    IF \E i \in 1..Len(flat) : flat[i].name = NonUtf8
    THEN [panic |-> TRUE, ret |-> Pending]
    ELSE IF found = <<>>
    THEN [panic |-> FALSE, ret |-> Err(<<"NaisYamlNotFound">>)]
    ELSE [panic |-> FALSE, ret |-> Ok(found[1].path)]

----------------------------------------------------------------------------
(* Inputs of one run.                                                      *)

Commands == {"Dockerfile", "Build", "Release"}
TagArgs == {None, Some("v1"), Some("ghcr.io/nais/prebuilt:v1")}
ReleaseTypes == {"GAR", "GHCR"}
Tokens == {"ya29.tok", "Bearer ya29.tok", "Bearer Bearer ya29.tok"}
Providers ==
    {[kind |-> "provider_error", token |-> ""], [kind |-> "token_error", token |-> ""]}
    \cup {[kind |-> "token", token |-> t] : t \in Tokens}
TmpStates == {"ok", "create_fails", "write_fails"}
\* <root>/cmd is only read below a tree that holds a go.mod file.
Trees ==
    {t \in [go_mod : MarkerStates, gradlew : MarkerStates, pom_xml : MarkerStates,
            cmd : CmdDirs] : t.go_mod # "file" => t.cmd = Unreadable}
ConfigFiles ==
    [release : [typ : ReleaseTypes,
                gar : {[registry |-> "gar.dev/nais"]},
                ghcr : {[registry |-> "ghcr.io/nais"]}],
     settings_file : {None, Some("settings.gradle.kts")}]

\* The parts of the environment are observed when run() first reads them;
\* until then they hold these values.
EmptyTree == [go_mod |-> "absent", gradlew |-> "absent", pom_xml |-> "absent",
              cmd |-> Unreadable]
IdleEngine == [build |-> Exited(0), login |-> Exited(0), push |-> Exited(0),
               logout |-> Exited(0)]
IdleProvider == [kind |-> "token", token |-> "ya29.tok"]

\* The listings detect_nais_yaml reads in a run: a candidate in the root, a
\* candidate in .nais only, no candidate, an unreadable root, and a root
\* with a file name that is not valid UTF-8.
RunNaisTrees ==
    {[filesystem_path |-> ".", root |-> t[1], nais |-> t[2]] :
        t \in {<<[readable |-> TRUE, entries |-> <<"nais.yaml">>], Unreadable>>,
               <<[readable |-> TRUE, entries |-> <<>>],
                 [readable |-> TRUE, entries |-> <<"dev-gcp.yaml">>]>>,
               <<[readable |-> TRUE, entries |-> <<>>], Unreadable>>,
               <<Unreadable, [readable |-> TRUE, entries |-> <<"dev-gcp.yaml">>]>>,
               <<[readable |-> TRUE, entries |-> <<NonUtf8, "nais.yaml">>],
                 Unreadable>>}}

\* The command lines, after the program name.
ArgVs ==
    {<<".", "dockerfile">>, <<".", "build">>, <<".", "release">>,
     <<".", "release", "--tag", "v1">>,
     <<".", "release", "--tag", "ghcr.io/nais/prebuilt:v1">>,
     <<"release", "--tag=v1">>, <<".", "--config", "nb.toml", "release">>,
     <<".", "--help">>, <<".", "--version">>, <<".", "release", "--help">>,
     <<"-h">>, <<".", "help">>, <<".", "release", "--tag", "v1", "-h">>,
     <<".">>, <<".", "build", "--tag", "v1">>, <<".", "release", "--tag">>,
     <<".", "release", "--tag", "--help">>, <<".", "deploy">>,
     <<"--config", "a", "--config", "b", "build", "--help">>,
     <<"--config", "a", "--config", "b", "build">>}

\* Cli::parse(): the parsed command and tag, or the code the process exits
\* with inside the parser: 0 after printing the help or the version, 2 for
\* a command line that struct Cli does not accept.  The words are read from
\* left to right and the first help, version or error ends the parse.
\* Before the subcommand: -h, --help, -V, --version, `--config PATH` or
\* `--config=PATH` once, the `help` subcommand, and one SOURCE_DIRECTORY,
\* which is any word that is neither an option nor a subcommand name.
\* After the subcommand: -h, --help, and for `release` `--tag TAG` or
\* `--tag=TAG` once.  A separate option value must not look like an option.
\* A separate option value is stored when the next word is read, so a
\* repeated `--config PATH` (dup) is an error at the next option or
\* positional word, but directly before a subcommand only after the
\* subcommand has been parsed: the help of the subcommand comes first.
Cli_parse(argv) ==
    LET CliExit(code) == [exit |-> Some(code), command |-> "none", tag |-> None]
        CliArgs(command, tag) == [exit |-> None, command |-> command, tag |-> tag]
        starts(w, p) == Len(w) >= Len(p) /\ SubSeq(w, 1, Len(p)) = p
        option(w) == Len(w) >= 2 /\ starts(w, "-")
        short(w, c) == option(w) /\ ~starts(w, "--") /\ SubSeq(w, 2, 2) = c
        value_follows(rest) == rest # <<>> /\ ~option(Head(rest))
        name(w) == CASE w = "dockerfile" -> "Dockerfile"
                     [] w = "build" -> "Build"
                     [] w = "release" -> "Release"
        RECURSIVE subcommand(_, _, _)
        subcommand(cmd, words, tag) ==
            IF words = <<>> THEN CliArgs(name(cmd), tag)
            ELSE LET w == Head(words)
                     rest == Tail(words) IN
                 IF w = "--help" \/ short(w, "h") THEN CliExit(0)
                 ELSE IF w = "--" /\ rest = <<>> THEN CliArgs(name(cmd), tag)
                 ELSE IF cmd # "release" \/ IsSome(tag) THEN CliExit(2)
                 ELSE IF w = "--tag"
                 THEN (IF value_follows(rest)
                       THEN subcommand(cmd, Tail(rest), Some(Head(rest)))
                       ELSE CliExit(2))
                 ELSE IF starts(w, "--tag=")
                 THEN subcommand(cmd, rest, Some(SubSeq(w, 7, Len(w))))
                 ELSE CliExit(2)
        RECURSIVE top(_, _, _, _)
        top(words, source_directory, config, dup) ==
            IF words = <<>> THEN CliExit(2)
            ELSE LET w == Head(words)
                     rest == Tail(words) IN
                 IF w \in {"--help", "--version"} \/ short(w, "h") \/ short(w, "V")
                 THEN (IF dup THEN CliExit(2) ELSE CliExit(0))
                 ELSE IF w = "--config"
                 THEN (IF ~dup /\ value_follows(rest)
                       THEN (IF IsSome(config)
                             THEN top(Tail(rest), source_directory, config, TRUE)
                             ELSE top(Tail(rest), source_directory, Some(Head(rest)),
                                      FALSE))
                       ELSE CliExit(2))
                 ELSE IF starts(w, "--config=")
                 THEN (IF ~dup /\ ~IsSome(config)
                       THEN top(rest, source_directory, Some(SubSeq(w, 10, Len(w))),
                                FALSE)
                       ELSE CliExit(2))
                 ELSE IF option(w) THEN CliExit(2)
                 ELSE IF w = "help"
                 THEN (IF \/ rest = <<>>
                          \/ /\ Len(rest) = 1
                             /\ rest[1] \in {"dockerfile", "build", "release", "help"}
                       THEN CliExit(0) ELSE CliExit(2))
                 ELSE IF w \in {"dockerfile", "build", "release"}
                 THEN LET parsed == subcommand(w, rest, None) IN
                      IF dup /\ ~IsSome(parsed.exit) THEN CliExit(2) ELSE parsed
                 ELSE IF ~dup /\ ~IsSome(source_directory)
                 THEN top(rest, Some(w), config, FALSE)
                 ELSE CliExit(2) IN
    top(argv, None, None, FALSE)

\* The command line and what Cli::parse() makes of it, and the files read
\* before the command is dispatched.
Inputs ==
    {in \in [argv : ArgVs, command : Commands \cup {"none"}, tag : TagArgs,
             cfg_file : ConfigFiles,
             nais_yaml : {[team |-> "mynamespace", app |-> "myapplication"]},
             generated_tag : {"20241008.152558.abcdef"},
             nais_tree : {[filesystem_path |-> ".", root |-> Unreadable,
                          nais |-> Unreadable]},
             fs : {EmptyTree}, engine : {IdleEngine}, tmp : {"ok"},
             provider : {IdleProvider}] :
        /\ in.command = Cli_parse(in.argv).command
        /\ in.tag = Cli_parse(in.argv).tag}

----------------------------------------------------------------------------
(* run() and main() of src/src/main.rs.                                    *)

\* The `?` operator: continue at `next` on Ok, return the error on Err.
question_mark_Swallows(r, next) == [pc |-> next, result |-> Pending]

question_mark(r, next) ==
    IF r.ok THEN [pc |-> next, result |-> Pending]
    ELSE [pc |-> "return", result |-> Err(ErrOf(r))]

Step(name, r) == [step |-> name, ok |-> r.ok]

\* A step of run() that the model does not look into: it succeeds or fails
\* with its error kind.
Prelude(at, name, kind, next) ==
    /\ pc = at
    /\ \E r \in {Ok(Unit), Err(<<kind>>)} :
         /\ trace' = Append(trace, Step(name, r))
         /\ pc' = question_mark(r, next).pc
         /\ result' = question_mark(r, next).result
    /\ UNCHANGED <<input, exit_code, docker_image_name, sdk, probes, token,
                   tempfiles, stdout, auth_vars, deploy_vars>>

\* main.rs:133: Cli::parse() returns the arguments or ends the process.
CliParse ==
    /\ pc = "Cli::parse"
    /\ LET parsed == Cli_parse(input.argv) IN
       /\ pc' = IF IsSome(parsed.exit) THEN "exited" ELSE "read_config"
       /\ exit_code' = parsed.exit
    /\ UNCHANGED <<input, trace, result, docker_image_name, sdk, probes, token,
                   tempfiles, stdout, auth_vars, deploy_vars>>

\* main.rs:134
ReadConfig == Prelude("read_config", "read_config", "ConfigParse", "detect_nais_yaml")

\* main.rs:138: detect_nais_yaml(&args.source_directory)?; a panic of
\* detect_nais_yaml unwinds through run() and main(), and the process ends
\* with the exit code 101 of a panicked main thread and no value of run().
DetectNaisYaml ==
    /\ pc = "detect_nais_yaml"
    /\ \E tree \in RunNaisTrees :
         LET d == detect_nais_yaml(tree.filesystem_path, tree.root, tree.nais)
             r == IF d.ret.ok THEN Ok(Unit)
                  ELSE Err(<<"DetectNaisYaml">> \o ErrOf(d.ret)) IN
         /\ input' = [input EXCEPT !.nais_tree = tree]
         /\ IF d.panic
            THEN /\ trace' = Append(trace, Step("detect_nais_yaml", Pending))
                 /\ pc' = "exited"
                 /\ exit_code' = Some(101)
                 /\ result' = result
            ELSE /\ trace' = Append(trace, Step("detect_nais_yaml", r))
                 /\ pc' = question_mark(r, "parse_file").pc
                 /\ result' = question_mark(r, "parse_file").result
                 /\ exit_code' = exit_code
    /\ UNCHANGED <<docker_image_name, sdk, probes, token, tempfiles, stdout,
                   auth_vars, deploy_vars>>
\* main.rs:141
ParseFile == Prelude("parse_file", "parse_file", "DetectNaisYaml", "Config::new")
\* main.rs:143
ConfigNew == Prelude("Config::new", "Config::new", "Config", "tag::generate")
\* main.rs:149-154
TagGenerate == Prelude("tag::generate", "tag::generate", "DockerTag", "command")

\* main.rs:149-154: docker_name_config
docker_name_config(in) ==
    [registry |-> Release_value(in.cfg_file.release).registry,
     tag |-> in.generated_tag,
     team |-> in.nais_yaml.team,
     app |-> in.nais_yaml.app]

\* main.rs:158-159 and 165-166: format the image name, detect the SDK.
InitSdk ==
    /\ pc = "command"
    /\ input.command \in {"Dockerfile", "Build"}
    /\ \E tree \in Trees :
         LET detected == init_sdk(tree)
             next == IF input.command = "Dockerfile" THEN "dockerfile" ELSE "build" IN
         /\ input' = [input EXCEPT !.fs = tree]
         /\ docker_image_name' =
                Some(docker_name_builder(input.cfg_file.release,
                                         docker_name_config(input)))
         /\ probes' = detected.probed
         /\ sdk' = IF detected.ret.ok THEN Some(ValOf(detected.ret)) ELSE None
         /\ trace' = Append(trace, Step("init_sdk", detected.ret))
         /\ pc' = question_mark(detected.ret, next).pc
         /\ result' = question_mark(detected.ret, next).result
    /\ UNCHANGED <<exit_code, token, tempfiles, stdout, auth_vars, deploy_vars>>

\* main.rs:160-162: print the generated Dockerfile.
Dockerfile ==
    /\ pc = "dockerfile"
    /\ LET script == dockerfile(Unwrap(sdk), input) IN
       /\ trace' = Append(trace, Step("dockerfile", script))
       /\ stdout' = IF script.ok THEN Some(ValOf(script)) ELSE stdout
       /\ pc' = "return"
       /\ result' = IF script.ok THEN Ok(Unit) ELSE Err(ErrOf(script))
    /\ UNCHANGED <<input, exit_code, docker_image_name, sdk, probes, token,
                   tempfiles, auth_vars, deploy_vars>>

\* main.rs:250: NamedTempFile::new()?
BuildTempfile ==
    /\ pc = "build"
    /\ \E t \in TmpStates :
         LET r == IF t = "create_fails" THEN Err(<<"FilesystemError">>) ELSE Ok(Unit) IN
         /\ input' = [input EXCEPT !.tmp = t]
         /\ tempfiles' = IF r.ok THEN tempfiles + 1 ELSE tempfiles
         /\ trace' = IF r.ok THEN trace ELSE Append(trace, Step("build", r))
         /\ pc' = question_mark(r, "docker_build").pc
         /\ result' = question_mark(r, "docker_build").result
    /\ UNCHANGED <<exit_code, docker_image_name, sdk, probes, token, stdout,
                   auth_vars, deploy_vars>>

\* main.rs:251-269: the rest of build(); `file` is dropped on return.
Build_LeaksOnFailure ==
    /\ pc = "docker_build"
    /\ \E outcome \in Outcomes :
         LET in == [input EXCEPT !.engine.build = outcome]
             b == build(Unwrap(sdk), in) IN
         /\ input' = IF b.engine_invoked THEN in ELSE input
         /\ (~b.engine_invoked => outcome = Exited(0))
         /\ tempfiles' = IF b.ret.ok THEN tempfiles - 1 ELSE tempfiles
         /\ trace' = Append(trace, Step("build", b.ret))
         /\ pc' = "return"
         /\ result' = b.ret
    /\ UNCHANGED <<exit_code, docker_image_name, sdk, probes, token, stdout,
                   auth_vars, deploy_vars>>

Build ==
    /\ pc = "docker_build"
    /\ \E outcome \in Outcomes :
         LET in == [input EXCEPT !.engine.build = outcome]
             b == build(Unwrap(sdk), in) IN
         /\ input' = IF b.engine_invoked THEN in ELSE input
         /\ (~b.engine_invoked => outcome = Exited(0))
         /\ tempfiles' = tempfiles - 1
         /\ trace' = Append(trace, Step("build", b.ret))
         /\ pc' = "return"
         /\ result' = b.ret
    /\ UNCHANGED <<exit_code, docker_image_name, sdk, probes, token, stdout,
                   auth_vars, deploy_vars>>

\* main.rs:171-175: --tag replaces the generated tag of the image name.
release_image_name(in) ==
    LET config == docker_name_config(in) IN
    docker_name_builder(in.cfg_file.release,
                        IF IsSome(in.tag) THEN [config EXCEPT !.tag = Unwrap(in.tag)]
                        ELSE config)

ReleaseName ==
    /\ pc = "command"
    /\ input.command = "Release"
    /\ docker_image_name' = Some(release_image_name(input))
    /\ pc' = "get_gar_auth_token"
    /\ UNCHANGED <<input, trace, result, exit_code, sdk, probes, token, tempfiles,
                   stdout, auth_vars, deploy_vars>>

\* main.rs:180-181
GetGarAuthToken ==
    /\ pc = "get_gar_auth_token"
    /\ \E provider \in Providers :
         LET r == get_gar_auth_token(provider) IN
         /\ input' = [input EXCEPT !.provider = provider]
         /\ token' = IF r.ok
                     THEN Some(unwrap_or(strip_prefix(ValOf(r), "Bearer "), ValOf(r)))
                     ELSE token
         /\ trace' = Append(trace, Step("get_gar_auth_token", r))
         /\ pc' = question_mark(r, "docker_login").pc
         /\ result' = question_mark(r, "docker_login").result
    /\ UNCHANGED <<exit_code, docker_image_name, sdk, probes, tempfiles, stdout,
                   auth_vars, deploy_vars>>

\* main.rs:183
DockerLogin ==
    /\ pc = "docker_login"
    /\ \E e \in {e \in [build : {Exited(0)}, login : Outcomes, push : Outcomes,
                        logout : Outcomes] : TRUE} :
         LET r == docker_login(e.login) IN
         /\ input' = [input EXCEPT !.engine = e]
         /\ trace' = Append(trace, Step("docker_login", r))
         /\ pc' = question_mark(r, "docker_logout").pc
         /\ result' = question_mark(r, "docker_logout").result
    /\ UNCHANGED <<exit_code, docker_image_name, sdk, probes, token, tempfiles,
                   stdout, auth_vars, deploy_vars>>

\* main.rs:187-188
DockerLogout ==
    /\ pc = "docker_logout"
    /\ LET r == docker_logout(input.engine.logout) IN
       /\ trace' = Append(trace, Step("docker_logout", r))
       /\ pc' = "return"
       /\ result' = IF r.ok THEN Ok(Unit) ELSE Err(ErrOf(r))
    /\ UNCHANGED <<input, exit_code, docker_image_name, sdk, probes, token,
                   tempfiles, stdout, auth_vars, deploy_vars>>

\* main.rs:120-128: main() maps the result of run() to the exit code.
exit_code_of_AlwaysZero(r) == IF r.ok THEN 0 ELSE 0

exit_code_of(r) == IF r.ok THEN 0 ELSE 1

Exit ==
    /\ pc = "return"
    /\ exit_code' = Some(exit_code_of(result))
    /\ pc' = "exited"
    /\ UNCHANGED <<input, trace, result, docker_image_name, sdk, probes, token,
                   tempfiles, stdout, auth_vars, deploy_vars>>

----------------------------------------------------------------------------
(* The token provider: src/src/auth.rs and src/src/google.rs.              *)

\* The environment variables the token providers and the deploy
\* configuration read.  A variable is not set (None), set to a string, or
\* set to bytes that are not valid Unicode (NotUnicode).
\* std::env::var(name).ok() is None for a variable that is not set
\* (VarError::NotPresent) and for one whose value is not valid Unicode
\* (VarError::NotUnicode).
EnvNames == {"WORKLOAD_IDENTITY_POOL", "ACTIONS_ID_TOKEN_REQUEST_URL",
             "ACTIONS_ID_TOKEN_REQUEST_TOKEN", "GITHUB_TOKEN",
             "NAIS_DEPLOY_APIKEY", "NAIS_DEPLOY_SERVER"}
NotUnicode == "<not-unicode>"
EnvValues == {None, Some(""), Some("set"), Some(NotUnicode)}
NoEnv == [n \in EnvNames |-> None]
env_var(env, name) == IF env[name] = Some(NotUnicode) THEN None ELSE env[name]

\* HTTP answers: the request failed in transport (timeout, connection), or
\* a status and a body came back.
IdTokenBody == "{\"value\":\"jwt\"}"
AccessTokenBody == "{\"access_token\":\"ya29.sts\"}"
FullExchangeBody == "{\"access_token\":\"ya29.sts\",\"issued_token_type\":\"t\",\"token_type\":\"Bearer\",\"expires_in\":3600}"
NonJsonBody == "permission denied"
Bodies == {IdTokenBody, AccessTokenBody, FullExchangeBody, NonJsonBody}
HttpStatuses == {200, 403}
Responses ==
    {[sent |-> FALSE, status |-> 0, body |-> ""]}
    \cup [sent : {TRUE}, status : HttpStatuses, body : Bodies]

\* serde_json::from_slice::<GitHubTokenResponse>: a JSON object with a
\* string field `value`.
parse_GitHubTokenResponse(body) ==
    IF body = IdTokenBody THEN Some([value |-> "jwt"]) ELSE None

\* serde_json::from_slice::<TokenExchangeResponse> of auth.rs: a JSON object
\* with a string field `access_token`; other fields are ignored.
parse_TokenExchangeResponse(body) ==
    IF body \in {AccessTokenBody, FullExchangeBody}
    THEN Some([access_token |-> "ya29.sts"]) ELSE None

\* Response::json::<TokenExchangeResponse> of google.rs: all four fields of
\* the struct are required.
google_parse_TokenExchangeResponse(body) ==
    IF body = FullExchangeBody THEN Some([access_token |-> "ya29.sts"]) ELSE None

\* auth.rs github_id_token
github_id_token(resp) ==
    IF ~resp.sent THEN Err(<<"Reqwest">>)
    ELSE LET parsed == parse_GitHubTokenResponse(resp.body) IN
         IF IsSome(parsed) THEN Ok(Unwrap(parsed))
         ELSE Err(<<"Deserialize", resp.status, resp.body>>)

\* auth.rs exchange_federated_token
exchange_federated_token(resp) ==
    IF ~resp.sent THEN Err(<<"Reqwest">>)
    ELSE LET parsed == parse_TokenExchangeResponse(resp.body) IN
         IF IsSome(parsed) THEN Ok(Unwrap(parsed))
         ELSE Err(<<"Deserialize", resp.status, resp.body>>)

\* google.rs exchange_federated_token
google_exchange_federated_token(resp) ==
    IF ~resp.sent THEN Err(<<"Reqwest">>)
    ELSE LET parsed == google_parse_TokenExchangeResponse(resp.body) IN
         IF IsSome(parsed) THEN Ok(Unwrap(parsed))
         ELSE Err(<<"Reqwest">>)

\* auth.rs / google.rs get_gar_auth_token: the default token source's
\* token, without a leading "Bearer ".
auth_get_gar_auth_token(provider) ==
    CASE provider.kind = "provider_error" -> Err(<<"AuthError">>)
      [] provider.kind = "token_error"    -> Err(<<"AuthTokenError">>)
      [] provider.kind = "token" ->
            Ok(unwrap_or(strip_prefix(provider.token, "Bearer "), provider.token))

\* auth.rs token, lines 22-32: which path the match selects.
token_path_AnyTwo(env) ==
    IF Cardinality({n \in {"WORKLOAD_IDENTITY_POOL", "ACTIONS_ID_TOKEN_REQUEST_URL",
                           "ACTIONS_ID_TOKEN_REQUEST_TOKEN"} :
                        IsSome(env_var(env, n))}) >= 2
    THEN "federated" ELSE "ambient"

token_path(env) ==
    IF /\ IsSome(env_var(env, "WORKLOAD_IDENTITY_POOL"))
       /\ IsSome(env_var(env, "ACTIONS_ID_TOKEN_REQUEST_URL"))
       /\ IsSome(env_var(env, "ACTIONS_ID_TOKEN_REQUEST_TOKEN"))
    THEN "federated" ELSE "ambient"

\* google.rs token, lines 19-27.
google_token_path(env) ==
    IF /\ IsSome(env_var(env, "GITHUB_TOKEN"))
       /\ IsSome(env_var(env, "WORKLOAD_IDENTITY_POOL"))
    THEN "federated" ELSE "ambient"

\* token(): read the environment and select the path.
TokenSelect ==
    /\ a_pc = "token"
    /\ a_pc' = IF a_module = "auth"
               THEN (IF token_path(a_env) = "federated"
                     THEN "github_id_token" ELSE "get_gar_auth_token")
               ELSE (IF google_token_path(a_env) = "federated"
                     THEN "exchange_federated_token" ELSE "get_gar_auth_token")
    /\ UNCHANGED <<a_module, a_env, a_calls, a_result, run_vars, deploy_vars>>

\* auth.rs:28
GithubIdToken ==
    /\ a_pc = "github_id_token"
    /\ \E resp \in Responses :
         LET r == github_id_token(resp) IN
         /\ a_calls' = Append(a_calls,
                [endpoint |-> "oidc",
                 url |-> Unwrap(env_var(a_env, "ACTIONS_ID_TOKEN_REQUEST_URL")),
                 bearer |-> Unwrap(env_var(a_env, "ACTIONS_ID_TOKEN_REQUEST_TOKEN")),
                 audience |-> "https://iam.googleapis.com/"
                              \o Unwrap(env_var(a_env, "WORKLOAD_IDENTITY_POOL")),
                 subject_token |-> "",
                 response |-> resp])
         /\ a_pc' = IF r.ok THEN "exchange_federated_token" ELSE "returned"
         /\ a_result' = IF r.ok THEN Pending ELSE Err(ErrOf(r))
    /\ UNCHANGED <<a_module, a_env, run_vars, deploy_vars>>

subject_token_RequestBearer ==
    IF a_module = "auth"
    THEN Unwrap(env_var(a_env, "ACTIONS_ID_TOKEN_REQUEST_TOKEN"))
    ELSE Unwrap(env_var(a_env, "GITHUB_TOKEN"))

\* The identity token the exchange is called with: the value fetched by
\* github_id_token (auth.rs:29), or $GITHUB_TOKEN (google.rs:24).
subject_token ==
    IF a_module = "auth"
    THEN ValOf(github_id_token(a_calls[Len(a_calls)].response)).value
    ELSE Unwrap(env_var(a_env, "GITHUB_TOKEN"))

\* auth.rs:29-30, google.rs:24-25
ExchangeFederatedToken ==
    /\ a_pc = "exchange_federated_token"
    /\ \E resp \in Responses :
         LET r == IF a_module = "auth" THEN exchange_federated_token(resp)
                  ELSE google_exchange_federated_token(resp) IN
         /\ a_calls' = Append(a_calls,
                [endpoint |-> "sts",
                 url |-> "https://sts.googleapis.com/v1/token",
                 bearer |-> "",
                 audience |-> IF a_module = "auth"
                              THEN "//iam.googleapis.com/"
                                   \o Unwrap(env_var(a_env, "WORKLOAD_IDENTITY_POOL"))
                              ELSE Unwrap(env_var(a_env, "WORKLOAD_IDENTITY_POOL")),
                 subject_token |-> subject_token,
                 response |-> resp])
         /\ a_pc' = "returned"
         /\ a_result' = IF r.ok THEN Ok(ValOf(r).access_token) ELSE Err(ErrOf(r))
    /\ UNCHANGED <<a_module, a_env, run_vars, deploy_vars>>

\* auth.rs:32, google.rs:26
AmbientToken ==
    /\ a_pc = "get_gar_auth_token"
    /\ \E provider \in Providers :
         LET r == auth_get_gar_auth_token(provider) IN
         /\ a_calls' = Append(a_calls,
                [endpoint |-> "default_credentials",
                 url |-> "https://oauth2.googleapis.com/token/",
                 bearer |-> "", audience |-> "", subject_token |-> "",
                 response |-> [sent |-> TRUE, status |-> 0, body |-> provider.token]])
         /\ a_pc' = "returned"
         /\ a_result' = r
    /\ UNCHANGED <<a_module, a_env, run_vars, deploy_vars>>

----------------------------------------------------------------------------
(* The deploy client: src/src/deploy.rs.                                   *)

\* Config::default()
deploy_Config_default_Prefilled ==
    [apikey |-> "", cluster |-> "dev-gcp", deploy_server |-> "", owner |-> "",
     git_ref |-> "", repository |-> "", resource |-> <<>>, var |-> <<>>,
     vars |-> "", wait |-> FALSE]

deploy_Config_default ==
    [apikey |-> "", cluster |-> "", deploy_server |-> "", owner |-> "",
     git_ref |-> "", repository |-> "", resource |-> <<>>, var |-> <<>>,
     vars |-> "", wait |-> FALSE]

\* Config::try_new_from_env
try_new_from_env(env) ==
    IF ~IsSome(env_var(env, "NAIS_DEPLOY_APIKEY")) THEN None
    ELSE IF ~IsSome(env_var(env, "NAIS_DEPLOY_SERVER")) THEN None
    ELSE Some([deploy_Config_default EXCEPT
                 !.apikey = Unwrap(env_var(env, "NAIS_DEPLOY_APIKEY")),
                 !.deploy_server = Unwrap(env_var(env, "NAIS_DEPLOY_SERVER")),
                 !.wait = TRUE])

RECURSIVE flag_each(_, _)
flag_each(flag, values) ==
    IF Len(values) = 0 THEN <<>>
    ELSE <<flag, Head(values)>> \o flag_each(flag, Tail(values))

\* deploy(): the command line of the deploy client.
deploy_args(cfg) ==
    flag_each("--resource", cfg.resource) \o flag_each("--var", cfg.var)
    \o <<"--apikey", cfg.apikey, "--cluster", cfg.cluster,
         "--deploy-server", cfg.deploy_server, "--owner", cfg.owner,
         "--ref", cfg.git_ref, "--repository", cfg.repository,
         "--vars", cfg.vars,
         "--wait", IF cfg.wait THEN "true" ELSE "false">>

\* deploy(): the result, from the outcome of the process.
deploy(outcome) == status_to_result(outcome, "Deploy", "IOError")

\* deploy.rs has no caller in src/.  A caller obtains a Config from
\* try_new_from_env and, when one is returned, names the cluster, the
\* manifest and the image in it and hands it to deploy(); these request
\* fields follow the specification.
DeployRequests ==
    [cluster : {"dev-gcp", "prod-gcp"},
     resource : {"nais.yaml", ".nais/dev.yaml"},
     image : {"gar.dev/nais/mynamespace/myapplication:v1",
              "ghcr.io/nais/myapplication:v1"}]

deploy_request(cfg, req) ==
    [cfg EXCEPT !.cluster = req.cluster,
                !.resource = <<req.resource>>,
                !.var = <<"image=" \o req.image>>]

\* One call of Config::try_new_from_env (deploy.rs:29-38).
TryNewFromEnv ==
    /\ d_pc = "try_new_from_env"
    /\ d_config' = try_new_from_env(d_env)
    /\ d_pc' = IF IsSome(d_config') THEN "deploy" ELSE "returned"
    /\ UNCHANGED <<d_env, d_engine, d_invocations, d_result, run_vars, auth_vars>>

\* One call of deploy(cfg) (deploy.rs:40-69) with the returned Config:
\* the client is started whatever the fields of cfg hold.
DeployInvoke ==
    /\ d_pc = "deploy"
    /\ \E req \in DeployRequests, outcome \in Outcomes :
         LET cfg == deploy_request(Unwrap(d_config), req) IN
         /\ d_engine' = outcome
         /\ d_invocations' = Append(d_invocations, deploy_args(cfg))
         /\ d_result' = deploy(outcome)
         /\ d_pc' = "returned"
    /\ UNCHANGED <<d_env, d_config, run_vars, auth_vars>>

AuthIdle ==
    /\ a_module = "auth" /\ a_env = NoEnv /\ a_pc = "idle" /\ a_calls = <<>>
    /\ a_result = Pending
DeployIdle ==
    /\ d_env = NoEnv /\ d_engine = Exited(0) /\ d_pc = "idle"
    /\ d_config = None /\ d_invocations = <<>> /\ d_result = Pending

Init ==
    /\ input \in Inputs
    /\ pc = "Cli::parse"
    /\ trace = <<>>
    /\ result = Pending
    /\ exit_code = None
    /\ docker_image_name = None
    /\ sdk = None
    /\ probes = <<>>
    /\ token = None
    /\ tempfiles = 0
    /\ stdout = None
    /\ AuthIdle
    /\ DeployIdle

Next ==
    \/ CliParse
    \/ ReadConfig
    \/ DetectNaisYaml
    \/ ParseFile
    \/ ConfigNew
    \/ TagGenerate
    \/ InitSdk
    \/ Dockerfile
    \/ BuildTempfile
    \/ Build
    \/ ReleaseName
    \/ GetGarAuthToken
    \/ DockerLogin
    \/ DockerLogout
    \/ Exit

Spec == Init /\ [][Next]_vars

\* No run() in progress: the state of the run while only the token provider
\* or the deploy stage is exercised.
RunIdle ==
    /\ input = CHOOSE in \in Inputs : in.command = "Release"
    /\ pc = "idle"
    /\ trace = <<>>
    /\ result = Pending
    /\ exit_code = None
    /\ docker_image_name = None
    /\ sdk = None
    /\ probes = <<>>
    /\ token = None
    /\ tempfiles = 0
    /\ stdout = None

\* One call of token(), in any environment.
AuthEnvs ==
    {env \in [EnvNames -> {None, Some("set"), Some(NotUnicode)}] :
        /\ env["NAIS_DEPLOY_APIKEY"] = None
        /\ env["NAIS_DEPLOY_SERVER"] = None}

AuthInit ==
    /\ RunIdle
    /\ DeployIdle
    /\ a_module \in {"auth", "google"}
    /\ a_env \in AuthEnvs
    /\ a_pc = "token"
    /\ a_calls = <<>>
    /\ a_result = Pending

AuthNext ==
    \/ TokenSelect
    \/ GithubIdToken
    \/ ExchangeFederatedToken
    \/ AmbientToken

SpecAuth == AuthInit /\ [][AuthNext]_vars

\* One call of try_new_from_env, and of deploy() with the Config it
\* returned, in any environment.
DeployEnvs ==
    {env \in [EnvNames -> EnvValues] :
        \A n \in EnvNames \ {"NAIS_DEPLOY_APIKEY", "NAIS_DEPLOY_SERVER"} :
            env[n] = None}

DeployInit ==
    /\ RunIdle
    /\ AuthIdle
    /\ d_env \in DeployEnvs
    /\ d_engine = Exited(0)
    /\ d_pc = "try_new_from_env"
    /\ d_config = None
    /\ d_invocations = <<>>
    /\ d_result = Pending

DeployNext ==
    \/ TryNewFromEnv
    \/ DeployInvoke

SpecDeploy == DeployInit /\ [][DeployNext]_vars

----------------------------------------------------------------------------
(* The naming step of run() over the configurations.                       *)

\* main.rs:149-175 with the release section, team, app and tags ranging
\* over small sets; the registries of the two targets differ.
NameTeams == {"t", "mynamespace"}
NameInputs ==
    [command : {"Release"}, tag : {None, Some("1")},
     cfg_file : [release : [typ : ReleaseTypes,
                            gar : {[registry |-> "r"], [registry |-> "path/to/registry"]},
                            ghcr : {[registry |-> "g"], [registry |-> "ghcr.io/nais"]}],
                 settings_file : {None}],
     nais_yaml : [team : NameTeams, app : {"a", "myapplication"}],
     generated_tag : {"1-foo"},
     fs : {EmptyTree}, engine : {IdleEngine}, tmp : {"ok"}, provider : {IdleProvider}]

NameInit ==
    /\ input \in NameInputs
    /\ pc = "command"
    /\ trace = <<>>
    /\ result = Pending
    /\ exit_code = None
    /\ docker_image_name = None
    /\ sdk = None
    /\ probes = <<>>
    /\ token = None
    /\ tempfiles = 0
    /\ stdout = None
    /\ AuthIdle
    /\ DeployIdle

NameNext == ReleaseName

SpecName == NameInit /\ [][NameNext]_vars

----------------------------------------------------------------------------
(* Service account names: src/src/auth.rs.                                 *)

\* usize and isize have UsizeBits bits; the model scales the width of the
\* machine word down.
UsizeBits == 16
USIZE_MAX == 2^UsizeBits - 1
ISIZE_MAX == 2^(UsizeBits - 1) - 1
ISIZE_MIN == -(2^(UsizeBits - 1))

\* `x as isize` for a usize x: the same bits, read as two's complement.
as_isize(x) == IF x > ISIZE_MAX THEN x - 2^UsizeBits ELSE x

\* a - b on isize, b >= 0.  On overflow a build with overflow checks
\* (debug) panics and a build without them (release) wraps around.
isize_sub(a, b, profile) ==
    IF a.panic THEN a
    ELSE IF a.val - b < ISIZE_MIN
    THEN (IF profile = "debug" THEN [panic |-> TRUE, val |-> 0]
          ELSE [panic |-> FALSE, val |-> a.val - b + 2^UsizeBits])
    ELSE [panic |-> FALSE, val |-> a.val - b]

\* str::len: the length of a &str in bytes of its UTF-8 encoding.  The
\* letters outside ASCII of the slugs of the model take two bytes each.
RECURSIVE str_len(_)
str_len(s) ==
    IF s = "" THEN 0
    ELSE (IF SubSeq(s, 1, 1) \in {"å", "æ", "ø"} THEN 2 ELSE 1)
         + str_len(SubSeq(s, 2, Len(s)))

\* sha256::digest(slug): the hex digests of the slugs of the model.
Slugs == {"", "a", "crm-arbeidsforhold-admin", "very-long-slug-that-must-be-truncated",
          "blåbær"}
sha256_digest(slug) ==
    CASE slug = "" ->
           "e3b0c44298fc1c149afbf4c8996fb92427ae41e4649b934ca495991b7852b855"
      [] slug = "a" ->
           "ca978112ca1bbdcafac231b39a23dc4da786eff8147c4e72b9807785afee48bb"
      [] slug = "crm-arbeidsforhold-admin" ->
           "4789df8016fb9b5ebed2c8cc83d995a98bc16c0b944529e7819a520d73af8ffc"
      [] slug = "very-long-slug-that-must-be-truncated" ->
           "bcbb25cabee5bbd64c392e0daf5f7f89b59d98fc6f1b2260fb82093223db087f"
      [] slug = "blåbær" ->
           "6f1a4baa8c1c7537ba678df617a5e9256abcacb1056256b2e6f7d91c983ac531"

\* truncate(s, length): s when it is shorter than length bytes, else the
\* slice &s[0..length], which panics when byte `length` is not on a
\* character boundary.
truncate(s, length) ==
    IF str_len(s) < length THEN [panic |-> FALSE, val |-> s]
    ELSE LET cuts == {k \in 0..Len(s) : str_len(SubSeq(s, 1, k)) = length} IN
         IF cuts = {} THEN [panic |-> TRUE, val |-> ""]
         ELSE [panic |-> FALSE, val |-> SubSeq(s, 1, CHOOSE k \in cuts : TRUE)]

HASH_LENGTH == 4

\* slug_hash_prefix_truncate: a panic, or the Option it returns.
slug_hash_prefix_truncate(slug, prefix, max_length, profile) ==
    LET hashed_slug == sha256_digest(slug)
        prefix_len == str_len(prefix)
        slug_length ==
            isize_sub(isize_sub(isize_sub([panic |-> FALSE, val |-> as_isize(max_length)],
                                          prefix_len, profile),
                                HASH_LENGTH, profile),
                      2, profile) IN
    IF slug_length.panic THEN [panic |-> TRUE, ret |-> None]
    ELSE IF slug_length.val < 0 THEN [panic |-> FALSE, ret |-> None]
    ELSE LET trimmed == truncate(slug, slug_length.val)
             truncated == truncate(hashed_slug, HASH_LENGTH) IN
         IF trimmed.panic \/ truncated.panic THEN [panic |-> TRUE, ret |-> None]
         ELSE [panic |-> FALSE,
               ret |-> Some(prefix \o "-" \o trimmed.val \o "-" \o truncated.val)]

\* One call of slug_hash_prefix_truncate, with arguments around the
\* boundaries of the length arithmetic.
SlugPrefixes == {"", "gar", "four"}
SlugMaxLengths ==
    {0, 5, 6, 9, 10, 12, 30, 45, 47, ISIZE_MAX, ISIZE_MAX + 1, ISIZE_MAX + 4,
     ISIZE_MAX + 10, ISIZE_MAX + 11, USIZE_MAX}
SlugCalls == [slug : Slugs, prefix : SlugPrefixes, max_length : SlugMaxLengths,
              profile : {"debug", "release"}]

SlugInit ==
    /\ input \in SlugCalls
    /\ pc = "slug_hash_prefix_truncate"
    /\ trace = <<>>
    /\ result = Pending
    /\ exit_code = None
    /\ docker_image_name = None
    /\ sdk = None
    /\ probes = <<>>
    /\ token = None
    /\ tempfiles = 0
    /\ stdout = None
    /\ AuthIdle
    /\ DeployIdle

SlugHashPrefixTruncate ==
    /\ pc = "slug_hash_prefix_truncate"
    /\ LET r == slug_hash_prefix_truncate(input.slug, input.prefix,
                                          input.max_length, input.profile) IN
       result' = IF r.panic THEN Err(<<"panic">>) ELSE Ok(r.ret)
    /\ pc' = "returned"
    /\ UNCHANGED <<input, trace, exit_code, docker_image_name, sdk, probes, token,
                   tempfiles, stdout, auth_vars, deploy_vars>>

SlugNext == SlugHashPrefixTruncate

SpecSlug == SlugInit /\ [][SlugNext]_vars

----------------------------------------------------------------------------
(* Image tags: docker::tag::generate of src/src/config.rs (and docker.rs).  *)

\* The working tree as git sees it, and how the two git processes end.
\* `git ls-files --exclude-standard --others` prints the untracked files
\* that are not ignored, one per line; `git rev-parse --short HEAD` prints
\* the short hash.
GitTrees ==
    [untracked : {<<>>, <<"new.txt">>, <<"new.txt", "tmp.log">>},
     modified : BOOLEAN, staged : BOOLEAN,
     ls_files : {"ok", "io_error"},
     rev_parse : {"ok", "io_error", "non_utf8"},
     short_sha : {"abcdef"},
     datetime : {"20241008.152558", "20250101.000000"}]

git_ls_files_others(git) ==
    IF git.ls_files = "io_error" THEN Err(<<"FailedExecute">>)
    ELSE Ok(fold_lines("", git.untracked))

git_rev_parse_short_head(git) ==
    CASE git.rev_parse = "io_error" -> Err(<<"FailedExecute">>)
      [] git.rev_parse = "non_utf8" -> Err(<<"ParseGitShortSha">>)
      [] git.rev_parse = "ok"       -> Ok(git.short_sha \o "\n")

\* tag::generate
tag_generate(git) ==
    LET listed == git_ls_files_others(git)
        sha == git_rev_parse_short_head(git) IN
    IF ~listed.ok THEN Err(ErrOf(listed))
    ELSE IF ~sha.ok THEN Err(ErrOf(sha))
    ELSE LET git_tree_dirty == Len(ValOf(listed)) > 0
             git_short_sha == trim(ValOf(sha)) IN
         IF git_tree_dirty
         THEN Ok(git.datetime \o "." \o git_short_sha \o "-dirty")
         ELSE Ok(git.datetime \o "." \o git_short_sha)

TagInit ==
    /\ input \in GitTrees
    /\ pc = "generate"
    /\ trace = <<>>
    /\ result = Pending
    /\ exit_code = None
    /\ docker_image_name = None
    /\ sdk = None
    /\ probes = <<>>
    /\ token = None
    /\ tempfiles = 0
    /\ stdout = None
    /\ AuthIdle
    /\ DeployIdle

Generate ==
    /\ pc = "generate"
    /\ result' = tag_generate(input)
    /\ pc' = "returned"
    /\ UNCHANGED <<input, trace, exit_code, docker_image_name, sdk, probes, token,
                   tempfiles, stdout, auth_vars, deploy_vars>>

TagNext == Generate

SpecTag == TagInit /\ [][TagNext]_vars

----------------------------------------------------------------------------
(* docker::build of src/src/docker.rs.                                     *)

\* docker::build: create the temporary file, generate the script, write it,
\* run `docker build`.
docker_build_IgnoresStatus(builder, in) ==
    IF in.tmp = "create_fails"
    THEN [ret |-> Err(<<"IOError">>), engine_invoked |-> FALSE]
    ELSE LET script == dockerfile(builder, in) IN
         IF ~script.ok
         THEN [ret |-> Err(<<"Generate">> \o ErrOf(script)), engine_invoked |-> FALSE]
         ELSE IF in.tmp = "write_fails"
         THEN [ret |-> Err(<<"IOError">>), engine_invoked |-> FALSE]
         ELSE [ret |-> IF in.engine.build.io_error THEN Err(<<"IOError">>)
                       ELSE Ok(Unit),
               engine_invoked |-> TRUE]

docker_build(builder, in) ==
    IF in.tmp = "create_fails"
    THEN [ret |-> Err(<<"IOError">>), engine_invoked |-> FALSE]
    ELSE LET script == dockerfile(builder, in) IN
         IF ~script.ok
         THEN [ret |-> Err(<<"Generate">> \o ErrOf(script)), engine_invoked |-> FALSE]
         ELSE IF in.tmp = "write_fails"
         THEN [ret |-> Err(<<"IOError">>), engine_invoked |-> FALSE]
         ELSE [ret |-> status_to_result(in.engine.build, "Build", "IOError"),
               engine_invoked |-> TRUE]

\* The callers' side of docker::build: a detected SDK and the tree it was
\* detected in.
DockerBuildInputs ==
    {in \in [command : {"Build"}, tag : {None}, cfg_file : ConfigFiles,
             nais_yaml : {[team |-> "mynamespace", app |-> "myapplication"]},
             generated_tag : {"20241008.152558.abcdef"},
             fs : Trees, engine : {IdleEngine}, tmp : {"ok"},
             provider : {IdleProvider}] :
        /\ in.cfg_file.release.typ = "GAR"
        /\ in.fs.pom_xml = "absent"
        /\ \/ in.fs.go_mod = "file" /\ in.fs.gradlew = "absent"
              /\ in.cfg_file.settings_file = None
           \/ in.fs.go_mod = "absent" /\ in.fs.gradlew = "file"}

DockerBuildInit ==
    /\ input \in DockerBuildInputs
    /\ sdk = Some(IF input.fs.go_mod = "file" THEN "Golang" ELSE "Gradle")
    /\ pc = "docker::build"
    /\ trace = <<>>
    /\ result = Pending
    /\ exit_code = None
    /\ docker_image_name = None
    /\ probes = <<>>
    /\ token = None
    /\ tempfiles = 0
    /\ stdout = None
    /\ AuthIdle
    /\ DeployIdle

DockerBuild ==
    /\ pc = "docker::build"
    /\ \E t \in TmpStates, outcome \in Outcomes :
         LET in == [input EXCEPT !.tmp = t, !.engine.build = outcome]
             b == docker_build(Unwrap(sdk), in) IN
         /\ input' = in
         /\ trace' = IF b.engine_invoked
                     THEN <<Step("docker build", b.ret)>> ELSE <<>>
         /\ result' = b.ret
         /\ pc' = "returned"
    /\ UNCHANGED <<exit_code, docker_image_name, sdk, probes, token, tempfiles,
                   stdout, auth_vars, deploy_vars>>

DockerBuildNext == DockerBuild

SpecDockerBuild == DockerBuildInit /\ [][DockerBuildNext]_vars

----------------------------------------------------------------------------
(* One call of detect_nais_yaml over the directory listings.               *)

NaisYamlInit ==
    /\ input \in [filesystem_path : {".", "app/"}, root : NaisDirs, nais : NaisDirs]
    /\ pc = "detect_nais_yaml"
    /\ trace = <<>>
    /\ result = Pending
    /\ exit_code = None
    /\ docker_image_name = None
    /\ sdk = None
    /\ probes = <<>>
    /\ token = None
    /\ tempfiles = 0
    /\ stdout = None
    /\ AuthIdle
    /\ DeployIdle

DetectNaisYamlCall ==
    /\ pc = "detect_nais_yaml"
    /\ LET r == detect_nais_yaml(input.filesystem_path, input.root, input.nais) IN
       /\ pc' = IF r.panic THEN "panicked" ELSE "returned"
       /\ result' = r.ret
    /\ UNCHANGED <<input, trace, exit_code, docker_image_name, sdk, probes, token,
                   tempfiles, stdout, auth_vars, deploy_vars>>

NaisYamlNext == DetectNaisYamlCall

SpecNaisYaml == NaisYamlInit /\ [][NaisYamlNext]_vars

----------------------------------------------------------------------------
(* Reading the trace.                                                      *)

Ran(name) == \E i \in 1..Len(trace) : trace[i].step = name
Succeeded(name) == \E i \in 1..Len(trace) : trace[i].step = name /\ trace[i].ok
CountOf(name) == Cardinality({i \in 1..Len(trace) : trace[i].step = name})
Failed == \E i \in 1..Len(trace) : ~trace[i].ok
Returned == pc \in {"return", "exited"}

----------------------------------------------------------------------------
(* Claims.                                                                 *)

\* C1: In a Release run whose `docker push` fails, logout has been attempted
\* exactly once when the stage returns, and the error the stage returns is
\* the push error, also when the logout fails too.
\* The Release arm of run() reaches the point of the push once the login
\* succeeded (main.rs:183-187); the container engine's answer to the push of
\* this run is input.engine.push.
C1_PushErrorSurvivesLogout ==
    ( /\ Returned
      /\ input.command = "Release"
      /\ Succeeded("docker_login")
      /\ ~push(input.engine.push).ok )
    => /\ CountOf("docker_logout") = 1
       /\ IsErr(result)
       /\ ErrOf(result) = ErrOf(push(input.engine.push))

\* C2: token() takes the federated path only when WORKLOAD_IDENTITY_POOL,
\* ACTIONS_ID_TOKEN_REQUEST_URL and ACTIONS_ID_TOKEN_REQUEST_TOKEN are all
\* set; when one of them is missing it uses the default credentials and
\* calls neither the OIDC endpoint nor the token-exchange endpoint.
AllThreeSignals ==
    /\ IsSome(env_var(a_env, "WORKLOAD_IDENTITY_POOL"))
    /\ IsSome(env_var(a_env, "ACTIONS_ID_TOKEN_REQUEST_URL"))
    /\ IsSome(env_var(a_env, "ACTIONS_ID_TOKEN_REQUEST_TOKEN"))

C2_FederatedOnlyWithAllThree ==
    ~AllThreeSignals =>
        /\ \A i \in 1..Len(a_calls) : a_calls[i].endpoint = "default_credentials"
        /\ a_pc = "returned" => Len(a_calls) = 1

\* C3: init_sdk probes Golang, Gradle, Maven in this order and returns the
\* first variant whose probe succeeds; no variant after it is probed, so a
\* tree with several markers yields the one of highest priority.
ProbeOrder == <<"Golang", "Gradle", "Maven">>

C3_FirstMatchWins ==
    Ran("init_sdk") =>
        /\ probes = SubSeq(ProbeOrder, 1, Len(probes))
        /\ \A i \in 1..3 :
             ( /\ input.fs[<<"go_mod", "gradlew", "pom_xml">>[i]] = "file"
               /\ \A j \in 1..(i - 1) :
                    input.fs[<<"go_mod", "gradlew", "pom_xml">>[j]]
                        \in {"absent", "dir"} )
             => /\ sdk = Some(ProbeOrder[i])
                /\ Len(probes) = i

C3_Witness ==
    /\ Ran("init_sdk")
    /\ input.fs.go_mod = "absent"
    /\ input.fs.gradlew = "file"
    /\ input.fs.pom_xml = "file"
    /\ sdk = Some("Gradle")
    /\ probes = <<"Golang", "Gradle">>

\* C4: A Release without --tag has run the Build stage (Dockerfile
\* generation and `docker build`) to success before the token is acquired,
\* before the login and before the push.
C4_ReleaseImpliesBuild ==
    ( /\ input.command = "Release"
      /\ input.tag = None
      /\ \/ Ran("get_gar_auth_token") \/ Ran("docker_login") )
    => Succeeded("build")

\* C5: with --tag supplied, Release runs neither the Dockerfile nor the
\* Build stage and the image reference is exactly the supplied string, not
\* recombined with registry, team or app.
C5_OverrideVerbatim ==
    ( /\ input.command = "Release"
      /\ IsSome(input.tag)
      /\ IsSome(docker_image_name) )
    => /\ docker_image_name = input.tag
       /\ ~Ran("init_sdk") /\ ~Ran("dockerfile") /\ ~Ran("build")

\* C6: With an incomplete deploy configuration, that is while
\* NAIS_DEPLOY_APIKEY or NAIS_DEPLOY_SERVER is not set, not valid Unicode
\* or empty, the deploy client is never invoked and try_new_from_env has
\* ended the attempt without a Config.
DeployConfigIncomplete ==
    \E n \in {"NAIS_DEPLOY_APIKEY", "NAIS_DEPLOY_SERVER"} :
        d_env[n] \in {None, Some(NotUnicode), Some("")}

C6_NoDeployWithoutConfig ==
    DeployConfigIncomplete =>
        /\ d_invocations = <<>>
        /\ d_pc = "returned" => d_config = None

\* C7: Once a step of run() has failed, no further step is started, and no
\* step is executed twice in one run.
C7_FailureAborts ==
    [][ /\ Failed => trace' = trace
        /\ \A i, j \in 1..Len(trace') :
             i # j => trace'[i].step # trace'[j].step ]_vars

C7_Witness ==
    /\ pc = "exited"
    /\ Len(trace) = 7
    /\ trace[7] = [step |-> "docker_login", ok |-> FALSE]
    /\ \A i \in 1..6 : trace[i].ok
    /\ IsErr(result)

\* C8: A probe whose marker cannot be examined for a reason other than its
\* absence makes init_sdk return an error that is not SDKNotDetected, and
\* no later variant is probed.
C8_ProbeErrorIsDetectionError ==
    Ran("init_sdk") =>
        \A i \in 1..Len(probes) :
            input.fs[<<"go_mod", "gradlew", "pom_xml">>[i]] = "denied"
            => /\ i = Len(probes)
               /\ sdk = None
               /\ ~Succeeded("init_sdk")

\* C9: On a tree with none of the markers init_sdk returns SDKNotDetected
\* and no SDK variant.
NoMarkers ==
    /\ input.fs.go_mod = "absent"
    /\ input.fs.gradlew = "absent"
    /\ input.fs.pom_xml = "absent"

C9_NoMarkerNotDetected ==
    (Ran("init_sdk") /\ NoMarkers) =>
        /\ sdk = None
        /\ ~Succeeded("init_sdk")
        /\ Returned
        /\ result = Err(<<"SDKNotDetected">>)

C9_Witness ==
    /\ Ran("init_sdk")
    /\ NoMarkers
    /\ pc = "exited"
    /\ result = Err(<<"SDKNotDetected">>)

\* C10: On a tree that holds the marker file of exactly one variant,
\* init_sdk returns that variant.
OnlyMarker(m) ==
    /\ input.fs[m] = "file"
    /\ \A o \in {"go_mod", "gradlew", "pom_xml"} \ {m} : input.fs[o] = "absent"

C10_OnlyMarkerDetectsVariant ==
    Ran("init_sdk") =>
        /\ OnlyMarker("go_mod")  => sdk = Some("Golang")
        /\ OnlyMarker("gradlew") => sdk = Some("Gradle")
        /\ OnlyMarker("pom_xml") => sdk = Some("Maven")

C10_Witness ==
    /\ Ran("init_sdk")
    /\ OnlyMarker("gradlew")
    /\ sdk = Some("Gradle")
    /\ Succeeded("init_sdk")

\* C11: When the token-exchange endpoint answers with a body that cannot be
\* decoded as the expected JSON, exchange_federated_token returns an error
\* that carries the HTTP status code and the literal body.
ExchangeDecodes(body) ==
    IF a_module = "auth" THEN IsSome(parse_TokenExchangeResponse(body))
    ELSE IsSome(google_parse_TokenExchangeResponse(body))

C11_ExchangeErrorCarriesBody ==
    \A i \in 1..Len(a_calls) :
        ( /\ a_calls[i].endpoint = "sts"
          /\ a_calls[i].response.sent
          /\ ~ExchangeDecodes(a_calls[i].response.body) )
        => /\ a_pc = "returned"
           /\ a_result = Err(<<"Deserialize", a_calls[i].response.status,
                               a_calls[i].response.body>>)

\* C12: When the OIDC identity-token endpoint answers with a status outside
\* 200..299, github_id_token fails with an error that embeds the status
\* code and the raw body, whatever the body is, and the token exchange is
\* not attempted.
C12_NonSuccessStatusFails ==
    \A i \in 1..Len(a_calls) :
        ( /\ a_calls[i].endpoint = "oidc"
          /\ a_calls[i].response.sent
          /\ a_calls[i].response.status \notin 200..299 )
        => /\ i = Len(a_calls)
           /\ a_pc = "returned"
           /\ a_result = Err(<<"Deserialize", a_calls[i].response.status,
                               a_calls[i].response.body>>)

\* C13: A run started with the deploy command and no image reference has,
\* unless a stage failed, run the Build stage and then the Release stage to
\* success and invoked the deploy client when it ends.
StepIndex(name) == CHOOSE i \in 1..Len(trace) : trace[i].step = name

C13_DeployImpliesRelease ==
    ( /\ pc = "exited"
      /\ \E k \in DOMAIN input.argv : input.argv[k] = "deploy"
      /\ ~Failed )
    => /\ Succeeded("build")
       /\ Succeeded("docker_login")
       /\ Succeeded("docker_logout")
       /\ StepIndex("build") < StepIndex("get_gar_auth_token")
       /\ d_invocations # <<>>

\* C14: The transient build-script file exists while build() runs the
\* container engine and no longer exists when build() has returned, on every
\* exit path: success, non-zero exit of the engine, failure to start it,
\* failure of Dockerfile generation and failure to create or write the file.
C14_TempfileRemoved ==
    /\ pc = "docker_build" => tempfiles = 1
    /\ pc # "docker_build" => tempfiles = 0

C14_Witness ==
    /\ Returned
    /\ input.command = "Build"
    /\ Ran("build")
    /\ input.engine.build = IoFailed
    /\ IsErr(result)
    /\ tempfiles = 0

\* C15: For the Go variant the list detect_build_targets returns is the same
\* for every order in which the operating system enumerates the entries of
\* the cmd directory.
SameEntries(l1, l2) ==
    /\ Len(l1) = Len(l2)
    /\ {l1[i] : i \in 1..Len(l1)} = {l2[i] : i \in 1..Len(l2)}

C15_TargetOrderStable ==
    ( /\ sdk = Some("Golang")
      /\ Ran("dockerfile") \/ Ran("build")
      /\ input.fs.cmd.readable )
    => \A l \in Listings :
          SameEntries(l, input.fs.cmd.entries)
          => LET other == golang_detect_build_targets(
                              [input.fs EXCEPT !.cmd.entries = l])
                 this == golang_detect_build_targets(input.fs) IN
             (this.ok /\ other.ok) => ValOf(other) = ValOf(this)

\* Reading a text line by line.
StartsWith(s, prefix) == Len(s) >= Len(prefix) /\ SubSeq(s, 1, Len(prefix)) = prefix
LineStarts(s) == {1} \cup {j + 1 : j \in {k \in 1..Len(s) : SubSeq(s, k, k) = "\n"}}
LineAt(s, b) ==
    LET ends == {j \in b..Len(s) : SubSeq(s, j, j) = "\n"}
        stop == IF ends = {} THEN Len(s) + 1
                ELSE CHOOSE j \in ends : \A k \in ends : j <= k IN
    SubSeq(s, b, stop - 1)
CountLines(s, prefix) ==
    Cardinality({b \in LineStarts(s) : StartsWith(LineAt(s, b), prefix)})
LinePositions(s, line) == {b \in LineStarts(s) : LineAt(s, b) = line}

\* The Dockerfile printed for a Go tree with the targets t has, for every
\* target and in the order of t, one `go build` line and one line copying
\* the binary, `copies` as the number of lines that start with copy_prefix,
\* and the CMD directive exactly when there is one target.
GoDockerfileShape(text, t, copy_prefix) ==
    LET build_line(x) ==
            "RUN go build -a -installsuffix cgo -o /build/" \o x \o " ./cmd/" \o x
        copy_line(x) == "COPY --from=builder /build/" \o x \o " /app/" \o x
        pos(line) == CHOOSE b \in LinePositions(text, line) : TRUE IN
    /\ CountLines(text, "RUN go build") = Len(t)
    /\ CountLines(text, copy_prefix) = Len(t)
    /\ \A i \in 1..Len(t) :
         /\ Cardinality(LinePositions(text, build_line(t[i]))) = 1
         /\ Cardinality(LinePositions(text, copy_line(t[i]))) = 1
    /\ \A i, j \in 1..Len(t) :
         i < j => /\ pos(build_line(t[i])) < pos(build_line(t[j]))
                  /\ pos(copy_line(t[i])) < pos(copy_line(t[j]))
                  /\ pos(build_line(t[j])) < pos(copy_line(t[i]))
    /\ CountLines(text, "CMD ") = IF Len(t) = 1 THEN 1 ELSE 0
    /\ Len(t) = 1 => LinePositions(text, "CMD [\"/app/" \o t[1] \o "\"]") # {}
    /\ CountLines(text, "# Default CMD omitted") = IF Len(t) = 1 THEN 0 ELSE 1

GoDockerfilePrinted ==
    /\ sdk = Some("Golang")
    /\ Succeeded("dockerfile")
    /\ IsSome(stdout)

\* C16 as stated: for a Go tree with N targets the Dockerfile has exactly N
\* `go build` commands and exactly N COPY commands, one of each per target
\* in the order of the target list, a CMD directive naming the target
\* exactly when N = 1, and the comment instead when N = 0 or N >= 2.
C16_CommandsPerTarget ==
    GoDockerfilePrinted =>
        GoDockerfileShape(golang_dockerfile_format(Unwrap(stdout)),
                          input.fs.cmd.entries, "COPY")

\* C16 as amended: the N COPY commands are those of the runtime stage that
\* copy a built binary (COPY --from=builder); the builder stage has two
\* more COPY commands, which copy the sources.
C16_CopyFromBuilderPerTarget ==
    GoDockerfilePrinted =>
        LET text == golang_dockerfile_format(Unwrap(stdout)) IN
        /\ GoDockerfileShape(text, input.fs.cmd.entries, "COPY --from=builder")
        /\ CountLines(text, "COPY") = Len(input.fs.cmd.entries) + 2

C16_Witness ==
    /\ GoDockerfilePrinted
    /\ input.fs.cmd.entries = <<"svcB", "svcA">>
    /\ CountLines(golang_dockerfile_format(Unwrap(stdout)), "RUN go build") = 2
    /\ Unwrap(stdout).default_target =
           "# Default CMD omitted due to multiple targets specified"

\* The tag the image is named with: --tag when given, else the generated
\* tag.
NamedTag == IF IsSome(input.tag) THEN Unwrap(input.tag) ELSE input.generated_tag

\* C17: For the GoogleArtifactRegistry target the image name is exactly
\* registry "/" team "/" app ":" tag.
C17_GarName ==
    (input.cfg_file.release.typ = "GAR" /\ IsSome(docker_image_name)) =>
        Unwrap(docker_image_name) =
            input.cfg_file.release.gar.registry \o "/" \o input.nais_yaml.team
            \o "/" \o input.nais_yaml.app \o ":" \o NamedTag

C17_Witness ==
    /\ input.cfg_file.release.typ = "GAR"
    /\ input.cfg_file.release.gar.registry = "r"
    /\ input.nais_yaml = [team |-> "t", app |-> "a"]
    /\ input.tag = Some("1")
    /\ docker_image_name = Some("r/t/a:1")

\* C18: For the GitHubContainerRegistry target the image name is exactly
\* registry "/" app ":" tag, and it is the same for every team.
C18_GhcrNameWithoutTeam ==
    (input.cfg_file.release.typ = "GHCR" /\ IsSome(docker_image_name)) =>
        /\ Unwrap(docker_image_name) =
               input.cfg_file.release.ghcr.registry \o "/" \o input.nais_yaml.app
               \o ":" \o NamedTag
        /\ \A team \in NameTeams :
               release_image_name([input EXCEPT !.nais_yaml.team = team])
                   = Unwrap(docker_image_name)

C18_Witness ==
    /\ input.cfg_file.release.typ = "GHCR"
    /\ input.nais_yaml.team = "mynamespace"
    /\ docker_image_name = Some("ghcr.io/nais/myapplication:1-foo")

\* C19: The release type alone selects both the registry and the naming
\* rule: GAR names the image under the gar registry by the GAR rule, GHCR
\* under the ghcr registry by the GHCR rule, never one target's registry
\* with the other target's rule.
C19_OneTargetActive ==
    IsSome(docker_image_name) =>
        LET release == input.cfg_file.release
            name == Unwrap(docker_image_name)
            rest_gar == "/" \o input.nais_yaml.team \o "/" \o input.nais_yaml.app
                        \o ":" \o NamedTag
            rest_ghcr == "/" \o input.nais_yaml.app \o ":" \o NamedTag IN
        /\ release.typ = "GAR" =>
              /\ Release_value(release) = release.gar
              /\ name = release.gar.registry \o rest_gar
        /\ release.typ = "GHCR" =>
              /\ Release_value(release) = release.ghcr
              /\ name = release.ghcr.registry \o rest_ghcr
        /\ name # release.gar.registry \o rest_ghcr
        /\ name # release.ghcr.registry \o rest_gar

C19_Witness ==
    /\ input.cfg_file.release =
           [typ |-> "GHCR", gar |-> [registry |-> "r"], ghcr |-> [registry |-> "g"]]
    /\ input.nais_yaml = [team |-> "t", app |-> "a"]
    /\ input.tag = None
    /\ docker_image_name = Some("g/a:1-foo")

\* C20: The registry token is normalised the same way on both paths: one
\* leading "Bearer " is removed when present, otherwise the token is used as
\* it is.  This holds for the token docker login is given in the Release
\* stage and for the token the ambient path returns.
Normalised(t) ==
    IF Len(t) >= 7 /\ SubSeq(t, 1, 7) = "Bearer " THEN SubSeq(t, 8, Len(t)) ELSE t

C20_TokenNormalised ==
    /\ Succeeded("get_gar_auth_token") =>
           token = Some(Normalised(input.provider.token))
    /\ \A p \in Providers :
           p.kind = "token" => auth_get_gar_auth_token(p) = Ok(Normalised(p.token))

C20_Witness ==
    /\ Succeeded("docker_login")
    /\ input.provider.token = "Bearer Bearer ya29.tok"
    /\ token = Some("Bearer ya29.tok")

\* What C22 says of a returned call with the arguments of `input`, lengths
\* counted in bytes.
SlugContract ==
    LET room == input.max_length - str_len(input.prefix) - 6 IN
    /\ result.ok
    /\ ValOf(result) = None <=> room < 0
    /\ room >= 0 =>
          LET name == Unwrap(ValOf(result)) IN
          /\ \E k \in 0..Len(input.slug) :
                /\ str_len(SubSeq(input.slug, 1, k)) <= room
                /\ name = input.prefix \o "-" \o SubSeq(input.slug, 1, k) \o "-"
                          \o SubSeq(sha256_digest(input.slug), 1, 4)
          /\ str_len(name) <= input.max_length
          /\ str_len(input.slug) >= room => str_len(name) = input.max_length

\* C22: slug_hash_prefix_truncate returns None exactly when
\* max_length < len(prefix) + 6; otherwise it returns prefix-slug-hash4
\* with the slug truncated, of length at most max_length, and exactly
\* max_length when the slug has at least max_length - len(prefix) - 6 bytes.
C22_SlugHashPrefixTruncate ==
    pc = "returned" => SlugContract

\* C23: tag::generate appends "-dirty" to the tag exactly when the working
\* tree is dirty, that is, it has untracked files or uncommitted
\* modifications of tracked files, and returns the tag without the suffix
\* exactly when the tree is clean.
TreeDirty == input.untracked # <<>> \/ input.modified \/ input.staged

C23_DirtySuffix ==
    (pc = "returned" /\ result.ok) =>
        ValOf(result) = input.datetime \o "." \o input.short_sha
                        \o (IF TreeDirty THEN "-dirty" ELSE "")

\* C24: within the Release stage the steps happen in the order token
\* acquisition, login, push, logout: login is attempted only after token
\* acquisition succeeded, push only after login succeeded, and logout never
\* before login; a Release that reaches its logout has therefore gone
\* through the push between login and logout.
Before(a, b) ==
    \A j \in 1..Len(trace) : trace[j].step = b =>
        \E i \in 1..(j - 1) : trace[i].step = a /\ trace[i].ok

C24_ReleaseOrder ==
    input.command = "Release" =>
        /\ Before("get_gar_auth_token", "docker_login")
        /\ Before("docker_login", "push")
        /\ Ran("docker_logout") => Ran("docker_login")
        /\ Ran("docker_logout") =>
              /\ Ran("push")
              /\ StepIndex("docker_login") < StepIndex("push")
              /\ StepIndex("push") < StepIndex("docker_logout")

\* C25: in auth::token() the federated path fetches the identity token
\* first and calls the token exchange only after that fetch returned Ok, with
\* the fetched value as subject token; a failure of either federated step is
\* the error token() returns, the ambient path is not tried afterwards, and
\* one call of token() uses exactly one of the two paths.
EndpointsCalled == [i \in 1..Len(a_calls) |-> a_calls[i].endpoint]

C25_FederatedSequence ==
    a_module = "auth" =>
        /\ EndpointsCalled \in {<<>>, <<"oidc">>, <<"oidc", "sts">>,
                                <<"default_credentials">>}
        /\ \A j \in 1..Len(a_calls) : a_calls[j].endpoint = "sts" =>
              /\ github_id_token(a_calls[j - 1].response).ok
              /\ a_calls[j].subject_token
                    = ValOf(github_id_token(a_calls[j - 1].response)).value
        /\ (a_pc = "returned" /\ EndpointsCalled = <<"oidc">>) =>
              /\ IsErr(a_result)
              /\ a_result = Err(ErrOf(github_id_token(a_calls[1].response)))
        /\ (a_pc = "returned" /\ EndpointsCalled = <<"oidc", "sts">>) =>
              LET r == exchange_federated_token(a_calls[2].response) IN
              a_result = IF r.ok THEN Ok(ValOf(r).access_token) ELSE Err(ErrOf(r))

C25_Witness ==
    /\ a_module = "auth"
    /\ a_pc = "returned"
    /\ EndpointsCalled = <<"oidc", "sts">>
    /\ IsErr(a_result)

\* C26: docker::build runs the container engine only after the Dockerfile
\* was generated and written (a generation failure returns Error::Generate
\* and the engine is not run), and once the engine has exited it returns Ok
\* exactly when the exit status is zero, and Error::Build with the exit
\* status otherwise.
C26_DockerBuild ==
    pc = "returned" =>
        LET script == dockerfile(Unwrap(sdk), input) IN
        /\ Ran("docker build") => script.ok /\ input.tmp = "ok"
        /\ (input.tmp # "create_fails" /\ ~script.ok) =>
              /\ ~Ran("docker build")
              /\ result = Err(<<"Generate">> \o ErrOf(script))
        /\ result.ok <=> Ran("docker build") /\ input.engine.build = Exited(0)
        /\ (Ran("docker build") /\ ~input.engine.build.io_error
                /\ input.engine.build.code # 0) =>
              result = Err(<<"Build", input.engine.build.code>>)

C26_Witness ==
    /\ pc = "returned"
    /\ Ran("docker build")
    /\ result = Err(<<"Build", 1>>)

\* C27: the Gradle build-target list is the fixed sequence test, shadowJar
\* whatever the tree holds, and the Gradle Dockerfile has one
\* `RUN ./gradlew` command per target in that order, each with the
\* -settings-file option exactly when a settings file is configured.
GradleDockerfilePrinted ==
    /\ sdk = Some("Gradle")
    /\ Succeeded("dockerfile")
    /\ IsSome(stdout)

C27_GradleCommands ==
    /\ gradle_detect_build_targets = Ok(<<"test", "shadowJar">>)
    /\ GradleDockerfilePrinted =>
        LET text == gradle_dockerfile_format(Unwrap(stdout))
            settings == input.cfg_file.settings_file
            option == IF IsSome(settings)
                      THEN "-settings-file " \o Unwrap(settings) \o " " ELSE ""
            line(x) == "RUN ./gradlew " \o option \o x
            pos(x) == CHOOSE b \in LinePositions(text, line(x)) : TRUE IN
        /\ CountLines(text, "RUN ./gradlew") = 2
        /\ CountLines(text, "RUN ./gradlew -settings-file")
              = IF IsSome(settings) THEN 2 ELSE 0
        /\ Cardinality(LinePositions(text, line("test"))) = 1
        /\ Cardinality(LinePositions(text, line("shadowJar"))) = 1
        /\ pos("test") < pos("shadowJar")

C27_Witness ==
    /\ GradleDockerfilePrinted
    /\ IsSome(input.cfg_file.settings_file)
    /\ input.fs.go_mod = "dir"

\* C28: detect_nais_yaml returns NaisYamlNotFound exactly when neither the
\* root directory nor the .nais directory has an entry with a candidate
\* name; with a candidate in the root directory it returns a path in the
\* root directory, whatever .nais holds; a missing or unreadable .nais
\* directory counts as empty, and an unreadable root directory is a
\* FileSystem error.
HasCandidate(dir) ==
    dir.readable /\ \E i \in 1..Len(dir.entries) : dir.entries[i] \in candidates
FirstCandidate(dir) ==
    dir.entries[CHOOSE i \in 1..Len(dir.entries) :
                    /\ dir.entries[i] \in candidates
                    /\ \A j \in 1..(i - 1) : dir.entries[j] \notin candidates]

C28_DetectNaisYaml ==
    pc \in {"returned", "panicked"} =>
        LET dir == input.filesystem_path
            in_root(e) == IF SubSeq(dir, Len(dir), Len(dir)) = "/"
                          THEN dir \o e ELSE dir \o "/" \o e IN
        IF ~input.root.readable
        THEN pc = "returned" /\ result = Err(<<"FileSystem">>)
        ELSE IF HasCandidate(input.root)
        THEN pc = "returned"
             /\ result = Ok(in_root(FirstCandidate(input.root)))
        ELSE IF HasCandidate(input.nais)
        THEN pc = "returned"
             /\ result = Ok(dir \o "/.nais/" \o FirstCandidate(input.nais))
        ELSE pc = "returned" /\ result = Err(<<"NaisYamlNotFound">>)

\* C29: the Go and the Gradle probe report their variant as applicable only
\* when the marker path (go.mod, gradlew) is a regular file in the root; a
\* directory with the marker's name is reported as not applicable and
\* init_sdk goes on to probe the next variant.
C29_MarkerMustBeFile ==
    Ran("init_sdk") =>
        /\ sdk = Some("Golang") => input.fs.go_mod = "file"
        /\ sdk = Some("Gradle") => input.fs.gradlew = "file"
        /\ input.fs.go_mod = "dir" =>
              /\ golang_new(input.fs) = Ok(None)
              /\ sdk # Some("Golang")
              /\ Len(probes) >= 2 /\ probes[2] = "Gradle"
        /\ (input.fs.go_mod \in {"absent", "dir"} /\ input.fs.gradlew = "dir") =>
              /\ gradle_new(input.fs) = Ok(None)
              /\ sdk # Some("Gradle")
              /\ Len(probes) = 3 /\ probes[3] = "Maven"

C29_Witness ==
    /\ Ran("init_sdk")
    /\ input.fs.go_mod = "dir"
    /\ input.fs.gradlew = "dir"
    /\ input.fs.pom_xml = "file"
    /\ probes = <<"Golang", "Gradle", "Maven">>
    /\ sdk = Some("Maven")

\* What try_new_from_env has returned when both variables count as
\* present: a Config with their values, wait = true and every other field
\* empty; and None when one does not.
TryNewFromEnvContract(present(_)) ==
    d_pc \notin {"idle", "try_new_from_env"} =>
        LET both == present("NAIS_DEPLOY_APIKEY") /\ present("NAIS_DEPLOY_SERVER") IN
        /\ IsSome(d_config) <=> both
        /\ both =>
              Unwrap(d_config) =
                 [apikey |-> Unwrap(d_env["NAIS_DEPLOY_APIKEY"]), cluster |-> "",
                  deploy_server |-> Unwrap(d_env["NAIS_DEPLOY_SERVER"]),
                  owner |-> "", git_ref |-> "", repository |-> "",
                  resource |-> <<>>, var |-> <<>>, vars |-> "", wait |-> TRUE]
        /\ ~both => d_config = None

VarSet(n) == d_env[n] # None
VarSetUnicode(n) == d_env[n] \notin {None, Some(NotUnicode)}

\* C30 as stated: deploy::Config::try_new_from_env returns a configuration
\* exactly when NAIS_DEPLOY_APIKEY and NAIS_DEPLOY_SERVER are both set, with
\* wait = true and every other field empty; when either variable is missing
\* it returns None.
C30_TryNewFromEnv == TryNewFromEnvContract(VarSet)

\* C30 as amended: try_new_from_env returns a configuration exactly when
\* both variables are set to valid Unicode values, with these two values,
\* wait = true and every other field empty; when either variable is missing
\* or not valid Unicode it returns None.
C30_TryNewFromEnvUnicode == TryNewFromEnvContract(VarSetUnicode)

C30_Witness ==
    /\ d_pc = "deploy"
    /\ d_env["NAIS_DEPLOY_APIKEY"] = Some("set")
    /\ d_env["NAIS_DEPLOY_SERVER"] = Some("")
    /\ IsSome(d_config)
    /\ Unwrap(d_config).apikey = "set"
    /\ Unwrap(d_config).deploy_server = ""
    /\ Unwrap(d_config).wait

====
